---- MODULE Spec2Model ----
(***************************************************************************)
(* State-machine model of src/invoicing.py: the SQLite store (Counters,    *)
(* Invoices, LineItems, Estimates, EstimateLineItems), the operations on   *)
(* it, and the handlers that call them.  The arguments a handler takes     *)
(* from the Streamlit session (the selected document, the open edit form)  *)
(* are drawn from the documents the page offered them from.  Money is kept *)
(* in integer hundredths so that the VAT division is                       *)
(* exact; dates are <<year, month, day>> triples (the 'YYYY-MM-DD' text)   *)
(* and are converted to proleptic ordinals for timedelta arithmetic.       *)
(* Pass-through text columns handled exactly like clientName / sellerName  *)
(* (clientEmail, sellerAddress, sellerOrgNumber, sellerVatRegistered) are  *)
(* not carried.  main runs initialize_database, which drops and recreates  *)
(* every table; the other handlers may run any number of times between two *)
(* runs of main.                                                           *)
(***************************************************************************)
EXTENDS Integers, Sequences, FiniteSets, TLC

VARIABLES
    Counters,           \* table Counters: name -> currentNumber
    Invoices,           \* table Invoices: set of rows
    LineItems,          \* table LineItems: invoiceId -> its rows in rowid order
    Estimates,          \* table Estimates: set of rows
    EstimateLineItems,  \* table EstimateLineItems: estimateId -> its rows in rowid order
    sqlite_sequence,    \* AUTOINCREMENT bookkeeping: table -> last id handed out
    message,            \* st.session_state.message and .message_type left by the last handler
    first_returned,     \* per counter: the first value get_next_number ever returned (a set of at most one)
    sinceInit,          \* per counter: values returned since the last initialize_database
    converted,          \* per estimate id: invoices inserted by conversions of it (capped at 2)
    call                \* a function of the module under evaluation: its arguments and its value

vars == <<Counters, Invoices, LineItems, Estimates, EstimateLineItems,
          sqlite_sequence, message, first_returned, sinceInit, converted, call>>

storeVars == <<Counters, Invoices, LineItems, Estimates, EstimateLineItems,
               sqlite_sequence>>

-----------------------------------------------------------------------------
(* Bounds *)

MaxIssued == 3  \* numbers handed out between two initialisations, both counters together

MaxYears == 2   \* calendar years, from FirstYear on, the dates given to advance are drawn from

MaxSteps == 3   \* times advance is applied in a row, each time to the date it gave before

MaxQuantity == 3  \* largest quantity given to calculate_line_item_amounts

MaxItems == 3   \* longest list of line items given to calculate_overall_totals

MaxListed == 3  \* documents in the store given to get_invoices and get_estimates

MaxCallers == 3  \* script runs inside get_next_number at the same time

-----------------------------------------------------------------------------
(* Program constants *)

InvoiceSeed == 1000
EstimateSeed == 2000
DueDays == 14
MonthlyDays == 31
QuarterlyDays == 92
AnnuallyDays == 366

CounterNames == {"invoiceNumber", "estimateNumber"}

Seed(name) == IF name = "invoiceNumber" THEN InvoiceSeed ELSE EstimateSeed

None == <<>>

-----------------------------------------------------------------------------
(* Calendar: datetime.date as used by strptime / strftime / timedelta *)

IsLeap(y) == (y % 4 = 0 /\ y % 100 # 0) \/ y % 400 = 0

DaysInMonth(y, m) ==
    IF m = 2 THEN (IF IsLeap(y) THEN 29 ELSE 28)
    ELSE IF m \in {4, 6, 9, 11} THEN 30 ELSE 31

RECURSIVE DaysBeforeMonth(_, _)
DaysBeforeMonth(y, m) ==
    IF m = 1 THEN 0 ELSE DaysBeforeMonth(y, m - 1) + DaysInMonth(y, m - 1)

DaysBeforeYear(y) ==
    (y - 1) * 365 + ((y - 1) \div 4) - ((y - 1) \div 100) + ((y - 1) \div 400)

DaysInYear(y) == IF IsLeap(y) THEN 366 ELSE 365

\* date.toordinal(): parse of the stored 'YYYY-MM-DD' text into a day count
strptime(d) == DaysBeforeYear(d[1]) + DaysBeforeMonth(d[1], d[2]) + d[3]

RECURSIVE YearOf(_, _)
YearOf(n, y) == IF n <= DaysBeforeYear(y + 1) THEN y ELSE YearOf(n, y + 1)

RECURSIVE MonthOf(_, _, _)
MonthOf(n, y, m) ==
    IF n <= DaysBeforeYear(y) + DaysBeforeMonth(y, m) + DaysInMonth(y, m)
    THEN m ELSE MonthOf(n, y, m + 1)

\* date.fromordinal() followed by strftime('%Y-%m-%d')
strftime(n) ==
    LET y == YearOf(n, (n \div 366) + 1)
        m == MonthOf(n, y, 1)
    IN <<y, m, n - DaysBeforeYear(y) - DaysBeforeMonth(y, m)>>

Min(a, b) == IF a <= b THEN a ELSE b

FrequencyDays(f) ==
    IF f = "monthly" THEN MonthlyDays
    ELSE IF f = "quarterly" THEN QuarterlyDays
    ELSE AnnuallyDays

\* (next_date + timedelta(days=k)).replace(day=min(next_date.day, (next_date + timedelta(days=k)).day))
\* the day of d + offset(f) put into d's own month
AdvanceWithinMonth(d, f) ==
    IF f \in {"monthly", "quarterly", "annually"}
    THEN LET t == strftime(strptime(d) + FrequencyDays(f))
         IN <<d[1], d[2], Min(d[3], t[3])>>
    ELSE d

advance(d, f) ==
    IF f \in {"monthly", "quarterly", "annually"}
    THEN LET t == strftime(strptime(d) + FrequencyDays(f))
         IN <<t[1], t[2], Min(d[3], t[3])>>
    ELSE d

\* date + timedelta(days=14), as text
PlusDays(d, k) == strftime(strptime(d) + k)

-----------------------------------------------------------------------------
(* Money / VAT calculator *)

RECURSIVE Sum(_)
Sum(numbers) ==
    IF numbers = <<>> THEN 0 ELSE Head(numbers) + Sum(Tail(numbers))

\* the VAT taken out of a unit price that already contains it
AmountsFromGrossPrice(quantity, unit_price, vat_rate) ==
    LET amount_incl_vat == quantity * unit_price
        vat_amount == (amount_incl_vat * vat_rate) \div (100 + vat_rate)
    IN [amountExclVAT |-> amount_incl_vat - vat_amount,
        vatAmount |-> vat_amount,
        amountInclVAT |-> amount_incl_vat]

calculate_line_item_amounts(quantity, unit_price, vat_rate) ==
    LET amount_excl_vat == quantity * unit_price
        vat_amount == (amount_excl_vat * vat_rate) \div 100
    IN [amountExclVAT |-> amount_excl_vat,
        vatAmount |-> vat_amount,
        amountInclVAT |-> amount_excl_vat + vat_amount]

\* the sums of the amounts the line items carry
TotalsOfStoredAmounts(line_items, vat_rate) ==
    [total_excl_vat |-> Sum([i \in 1..Len(line_items) |-> line_items[i].amountExclVAT]),
     total_vat |-> Sum([i \in 1..Len(line_items) |-> line_items[i].vatAmount]),
     total_incl_vat |-> Sum([i \in 1..Len(line_items) |-> line_items[i].amountInclVAT])]

RECURSIVE calculate_overall_totals(_, _)
calculate_overall_totals(line_items, vat_rate) ==
    IF line_items = <<>>
    THEN [total_excl_vat |-> 0, total_vat |-> 0, total_incl_vat |-> 0]
    ELSE LET n == Len(line_items)
             rest == calculate_overall_totals(SubSeq(line_items, 1, n - 1), vat_rate)
             a == calculate_line_item_amounts(line_items[n].quantity,
                                              line_items[n].unitPrice, vat_rate)
         IN [total_excl_vat |-> rest.total_excl_vat + a.amountExclVAT,
             total_vat |-> rest.total_vat + a.vatAmount,
             total_incl_vat |-> rest.total_incl_vat + a.amountInclVAT]

\* the loop of the form's submit branch that rebuilds every line item
RECURSIVE processed_line_items(_, _)
processed_line_items(items, vat_rate) ==
    IF items = <<>> THEN <<>>
    ELSE LET n == Len(items)
             a == calculate_line_item_amounts(items[n].quantity, items[n].unitPrice, vat_rate)
         IN Append(processed_line_items(SubSeq(items, 1, n - 1), vat_rate),
                   [description |-> items[n].description,
                    quantity |-> items[n].quantity,
                    unitPrice |-> items[n].unitPrice,
                    amountExclVAT |-> a.amountExclVAT,
                    vatAmount |-> a.vatAmount,
                    amountInclVAT |-> a.amountInclVAT])

-----------------------------------------------------------------------------
(* Store: schema and database operations *)

\* str(number): the decimal digits stored in the TEXT column
RECURSIVE str(_)
str(n) == IF n < 10 THEN <<n>> ELSE Append(str(n \div 10), n % 10)

\* SQLite BINARY collation on TEXT, as used by ORDER BY invoiceNumber
RECURSIVE TextLess(_, _)
TextLess(a, b) ==
    IF a = <<>> THEN b # <<>>
    ELSE IF b = <<>> THEN FALSE
    ELSE IF Head(a) # Head(b) THEN Head(a) < Head(b)
    ELSE TextLess(Tail(a), Tail(b))

\* an empty line-item table
NoLineItems == [p \in {} |-> <<>>]

DB == [Counters |-> Counters, Invoices |-> Invoices, LineItems |-> LineItems,
       Estimates |-> Estimates, EstimateLineItems |-> EstimateLineItems,
       sqlite_sequence |-> sqlite_sequence]

\* DROP TABLE IF EXISTS ... ; CREATE TABLE IF NOT EXISTS ... for the five tables
DropAndCreateTables(db) ==
    [Counters |-> [n \in {} |-> 0], Invoices |-> {}, LineItems |-> NoLineItems,
     Estimates |-> {}, EstimateLineItems |-> NoLineItems,
     sqlite_sequence |-> [t \in {"Invoices", "Estimates"} |-> 0]]

\* INSERT OR IGNORE INTO Counters (name, currentNumber) VALUES (?, ?)
InsertOrIgnoreCounter(C, name, value) ==
    IF name \in DOMAIN C THEN C
    ELSE [n \in (DOMAIN C) \cup {name} |-> IF n = name THEN value ELSE C[n]]

initialize_database(db) ==
    LET d == DropAndCreateTables(db)
    IN [d EXCEPT !.Counters =
            InsertOrIgnoreCounter(
                InsertOrIgnoreCounter(d.Counters, "invoiceNumber", InvoiceSeed),
                "estimateNumber", EstimateSeed)]

\* UPDATE Counters SET currentNumber = currentNumber + 1 WHERE name = ?; commit
UpdateCounterTwice(db, type) ==
    [db EXCEPT !.Counters = [n \in DOMAIN db.Counters |->
        IF n = type THEN db.Counters[n] + 2 ELSE db.Counters[n]]]

UpdateCounter(db, type) ==
    [db EXCEPT !.Counters = [n \in DOMAIN db.Counters |->
        IF n = type THEN db.Counters[n] + 1 ELSE db.Counters[n]]]

\* the value the counter held before the UPDATE
SelectCounterBeforeUpdate(db, type) == db.Counters[type] - 1

\* SELECT currentNumber FROM Counters WHERE name = ?; fetchone()[0]
SelectCounter(db, type) == db.Counters[type]

\* one line-item row as the INSERT statement reads it from an item dict
LineItemRow(item) ==
    [description |-> item.description,
     quantity |-> item.quantity, unitPrice |-> item.unitPrice,
     amountExclVAT |-> item.amountExclVAT, vatAmount |-> item.vatAmount,
     amountInclVAT |-> item.amountInclVAT]

\* SELECT * FROM LineItems WHERE invoiceId = ?: the rows of one parent in
\* rowid order.  A line-item table is kept as parent id -> its rows; the
\* order of rows of different parents is not observable by any query
SelectLineItems(table, parent_id) ==
    IF parent_id \in DOMAIN table THEN table[parent_id] ELSE <<>>

RECURSIVE LineItemRows(_)
LineItemRows(items) ==
    IF items = <<>> THEN <<>>
    ELSE <<LineItemRow(Head(items))>> \o LineItemRows(Tail(items))

\* the loop of INSERT INTO LineItems statements
InsertLineItems(table, parent_id, items) ==
    IF items = <<>> THEN table
    ELSE [p \in (DOMAIN table) \cup {parent_id} |->
             IF p = parent_id
             THEN SelectLineItems(table, parent_id) \o LineItemRows(items)
             ELSE table[p]]

\* no row is deleted
KeepLineItems(table, parent_id) == table

\* DELETE FROM LineItems WHERE invoiceId = ?
DeleteLineItems(table, parent_id) ==
    [p \in (DOMAIN table) \ {parent_id} |-> table[p]]

\* the Invoices row inserted by add_invoice: every column from invoice_data,
\* isCancelled always 0
InvoiceRow(id, invoice_data) ==
    [id |-> id,
     invoiceNumber |-> invoice_data.invoiceNumber,
     invoiceDate |-> invoice_data.invoiceDate,
     dueDate |-> invoice_data.dueDate,
     clientName |-> invoice_data.clientName,
     sellerName |-> invoice_data.sellerName,
     deliveryDetails |-> invoice_data.deliveryDetails,
     vatRate |-> invoice_data.vatRate,
     totalAmount |-> invoice_data.totalAmount,
     totalAmountExclVAT |-> invoice_data.totalAmountExclVAT,
     totalVAT |-> invoice_data.totalVAT,
     isRecurring |-> invoice_data.isRecurring,
     recurrenceFrequency |-> invoice_data.recurrenceFrequency,
     nextInvoiceDate |-> invoice_data.nextInvoiceDate,
     endDate |-> invoice_data.endDate,
     isCancelled |-> FALSE]

\* invoiceNumber TEXT NOT NULL UNIQUE
InvoiceNumberTaken(db, number) == \E r \in db.Invoices : r.invoiceNumber = number

\* result of add_invoice: ok = FALSE when the INSERT raises (UNIQUE violation or
\* the store failing); nothing was committed then
\* every statement committed as it is executed: a failure after the header
\* and the first line item leaves both in the store
AddInvoiceStatementwise(db, invoice_data, fails) ==
    LET invoice_id == db.sqlite_sequence["Invoices"] + 1
        items == IF fails THEN SubSeq(invoice_data.lineItems, 1, 1)
                 ELSE invoice_data.lineItems
    IN IF InvoiceNumberTaken(db, invoice_data.invoiceNumber)
       THEN [ok |-> FALSE, db |-> db]
       ELSE [ok |-> ~fails,
             db |-> [db EXCEPT
                 !.Invoices = @ \cup {InvoiceRow(invoice_id, invoice_data)},
                 !.LineItems = InsertLineItems(@, invoice_id, items),
                 !.sqlite_sequence = [@ EXCEPT !["Invoices"] = invoice_id]]]

\* the INSERTs of add_invoice in one transaction: a failure of the header
\* INSERT or of a line item's INSERT (fails), like a number already stored,
\* raises before commit, and the uncommitted rows go with the connection
add_invoice(db, invoice_data, fails) ==
    IF fails \/ InvoiceNumberTaken(db, invoice_data.invoiceNumber)
    THEN [ok |-> FALSE, db |-> db]
    ELSE LET invoice_id == db.sqlite_sequence["Invoices"] + 1
         IN [ok |-> TRUE,
             db |-> [db EXCEPT
                 !.Invoices = @ \cup {InvoiceRow(invoice_id, invoice_data)},
                 !.LineItems = InsertLineItems(@, invoice_id, invoice_data.lineItems),
                 !.sqlite_sequence = [@ EXCEPT !["Invoices"] = invoice_id]]]

UpdateInvoiceRowWithNumber(r, updated_data) ==
    [r EXCEPT
     !.invoiceNumber = updated_data.invoiceNumber,
     !.isCancelled = updated_data.isCancelled]

\* the UPDATE Invoices SET ... WHERE id = ? statement applied to one row
UpdateInvoiceRow(r, updated_data) ==
    [r EXCEPT
     !.invoiceDate = updated_data.invoiceDate,
     !.dueDate = updated_data.dueDate,
     !.clientName = updated_data.clientName,
     !.sellerName = updated_data.sellerName,
     !.deliveryDetails = updated_data.deliveryDetails,
     !.vatRate = updated_data.vatRate,
     !.totalAmount = updated_data.totalAmount,
     !.totalAmountExclVAT = updated_data.totalAmountExclVAT,
     !.totalVAT = updated_data.totalVAT,
     !.isRecurring = updated_data.isRecurring,
     !.recurrenceFrequency = updated_data.recurrenceFrequency,
     !.nextInvoiceDate = updated_data.nextInvoiceDate,
     !.endDate = updated_data.endDate,
     !.isCancelled = updated_data.isCancelled]

update_invoice(db, invoice_id, updated_data, fails) ==
    IF fails THEN [ok |-> FALSE, db |-> db]
    ELSE [ok |-> TRUE,
          db |-> [db EXCEPT
              !.Invoices = {IF r.id = invoice_id THEN UpdateInvoiceRow(r, updated_data) ELSE r
                            : r \in @},
              !.LineItems = InsertLineItems(DeleteLineItems(@, invoice_id),
                                            invoice_id, updated_data.lineItems)]]

DeleteInvoice(db, invoice_id) ==
    [db EXCEPT !.Invoices = {r \in @ : r.id # invoice_id},
               !.LineItems = DeleteLineItems(@, invoice_id)]

ToggleCancelled(db, invoice_id) ==
    [db EXCEPT !.Invoices = {IF r.id = invoice_id THEN [r EXCEPT !.isCancelled = ~@] ELSE r
                             : r \in @}]

\* UPDATE Invoices SET isCancelled = 1 WHERE id = ?
cancel_invoice(db, invoice_id) ==
    [db EXCEPT !.Invoices = {IF r.id = invoice_id THEN [r EXCEPT !.isCancelled = TRUE] ELSE r
                             : r \in @}]

\* one invoice_dict of get_invoices: the row and its line items
InvoiceDict(db, r) ==
    [id |-> r.id, invoiceNumber |-> r.invoiceNumber, invoiceDate |-> r.invoiceDate,
     dueDate |-> r.dueDate, clientName |-> r.clientName, sellerName |-> r.sellerName,
     deliveryDetails |-> r.deliveryDetails, vatRate |-> r.vatRate,
     totalAmount |-> r.totalAmount, totalAmountExclVAT |-> r.totalAmountExclVAT,
     totalVAT |-> r.totalVAT, isRecurring |-> r.isRecurring,
     recurrenceFrequency |-> r.recurrenceFrequency,
     nextInvoiceDate |-> r.nextInvoiceDate, endDate |-> r.endDate,
     isCancelled |-> r.isCancelled,
     lineItems |-> SelectLineItems(db.LineItems, r.id)]

\* ORDER BY <number column> DESC: the stored number texts, largest text first
RECURSIVE OrderByNumberDesc(_)
OrderByNumberDesc(numbers) ==
    IF numbers = {} THEN <<>>
    ELSE LET top == CHOOSE t \in numbers : \A o \in numbers : ~TextLess(t, o)
         IN <<top>> \o OrderByNumberDesc(numbers \ {top})

RECURSIVE InvoiceDicts(_, _)
InvoiceDicts(db, numbers) ==
    IF numbers = <<>> THEN <<>>
    ELSE <<InvoiceDict(db, CHOOSE r \in db.Invoices : r.invoiceNumber = Head(numbers))>>
         \o InvoiceDicts(db, Tail(numbers))

\* SELECT * FROM Invoices ORDER BY invoiceNumber DESC, then the filter on isCancelled
get_invoices(db) ==
    SelectSeq(InvoiceDicts(db, OrderByNumberDesc({r.invoiceNumber : r \in db.Invoices})),
              LAMBDA inv : ~inv.isCancelled)

EstimateRow(id, estimate_data) ==
    [id |-> id,
     estimateNumber |-> estimate_data.estimateNumber,
     estimateDate |-> estimate_data.estimateDate,
     clientName |-> estimate_data.clientName,
     sellerName |-> estimate_data.sellerName,
     deliveryDetails |-> estimate_data.deliveryDetails,
     vatRate |-> estimate_data.vatRate,
     totalAmount |-> estimate_data.totalAmount,
     totalAmountExclVAT |-> estimate_data.totalAmountExclVAT,
     totalVAT |-> estimate_data.totalVAT,
     status |-> estimate_data.status]

\* estimateNumber TEXT NOT NULL UNIQUE
EstimateNumberTaken(db, number) == \E r \in db.Estimates : r.estimateNumber = number

add_estimate(db, estimate_data, fails) ==
    IF fails \/ EstimateNumberTaken(db, estimate_data.estimateNumber)
    THEN [ok |-> FALSE, db |-> db]
    ELSE LET estimate_id == db.sqlite_sequence["Estimates"] + 1
         IN [ok |-> TRUE,
             db |-> [db EXCEPT
                 !.Estimates = @ \cup {EstimateRow(estimate_id, estimate_data)},
                 !.EstimateLineItems = InsertLineItems(@, estimate_id, estimate_data.lineItems),
                 !.sqlite_sequence = [@ EXCEPT !["Estimates"] = estimate_id]]]

UpdateEstimateRowWithNumber(r, updated_data) ==
    [r EXCEPT
     !.estimateNumber = updated_data.estimateNumber,
     !.status = updated_data.status]

\* an UPDATE that leaves the three total columns as they were
UpdateEstimateRowKeepingTotals(r, updated_data) ==
    [r EXCEPT
     !.estimateDate = updated_data.estimateDate,
     !.clientName = updated_data.clientName,
     !.sellerName = updated_data.sellerName,
     !.deliveryDetails = updated_data.deliveryDetails,
     !.vatRate = updated_data.vatRate,
     !.status = updated_data.status]

UpdateEstimateRow(r, updated_data) ==
    [r EXCEPT
     !.estimateDate = updated_data.estimateDate,
     !.clientName = updated_data.clientName,
     !.sellerName = updated_data.sellerName,
     !.deliveryDetails = updated_data.deliveryDetails,
     !.vatRate = updated_data.vatRate,
     !.totalAmount = updated_data.totalAmount,
     !.totalAmountExclVAT = updated_data.totalAmountExclVAT,
     !.totalVAT = updated_data.totalVAT,
     !.status = updated_data.status]

update_estimate(db, estimate_id, updated_data, fails) ==
    IF fails THEN [ok |-> FALSE, db |-> db]
    ELSE [ok |-> TRUE,
          db |-> [db EXCEPT
              !.Estimates = {IF r.id = estimate_id THEN UpdateEstimateRow(r, updated_data) ELSE r
                             : r \in @},
              !.EstimateLineItems = InsertLineItems(DeleteLineItems(@, estimate_id),
                                                    estimate_id, updated_data.lineItems)]]

\* DELETE FROM Estimates WHERE id = ? (the connection never enables
\* PRAGMA foreign_keys, so ON DELETE CASCADE does not run)
delete_estimate(db, estimate_id) ==
    [db EXCEPT !.Estimates = {r \in @ : r.id # estimate_id}]

EstimateDict(db, r) ==
    [id |-> r.id, estimateNumber |-> r.estimateNumber, estimateDate |-> r.estimateDate,
     clientName |-> r.clientName, sellerName |-> r.sellerName,
     deliveryDetails |-> r.deliveryDetails, vatRate |-> r.vatRate,
     totalAmount |-> r.totalAmount, totalAmountExclVAT |-> r.totalAmountExclVAT,
     totalVAT |-> r.totalVAT, status |-> r.status,
     lineItems |-> SelectLineItems(db.EstimateLineItems, r.id)]

RECURSIVE EstimateDicts(_, _)
EstimateDicts(db, numbers) ==
    IF numbers = <<>> THEN <<>>
    ELSE <<EstimateDict(db, CHOOSE r \in db.Estimates : r.estimateNumber = Head(numbers))>>
         \o EstimateDicts(db, Tail(numbers))

\* SELECT * FROM Estimates ORDER BY estimateNumber DESC
get_estimates(db) ==
    EstimateDicts(db, OrderByNumberDesc({r.estimateNumber : r \in db.Estimates}))

-----------------------------------------------------------------------------
(* Inputs: what the user types into the forms, and the clock *)

\* datetime.now().date() as read by a handler
Todays == {<<2024, 2, 1>>}

\* a second datetime.now() of the same handler: the same day or, when
\* midnight passes in between, the next one
Laters(now) == {now, strftime(strptime(now) + 1)}

Consulting == [description |-> "Consulting", quantity |-> 2, unitPrice |-> 50000]
Hosting == [description |-> "Hosting", quantity |-> 3, unitPrice |-> 20000]

\* the recurring invoice every specification can create
RecurringForm ==
    [invoiceDate |-> <<2023, 7, 31>>, dueDate |-> <<2023, 8, 30>>,
     clientName |-> "Bolt", sellerName |-> "Seller AS",
     deliveryDetails |-> "On site", vatRate |-> 25, lineItems |-> <<Consulting, Hosting>>,
     isRecurring |-> TRUE, recurrenceFrequency |-> "quarterly",
     nextInvoiceDate |-> <<2023, 10, 31>>, endDate |-> <<2024, 1, 31>>]

CoreInvoiceForms == {RecurringForm}

\* the values of the quantity, unit price and VAT rate inputs: unit prices
\* in hundredths, whole currency units, so that a percentage of them is whole
Quantities == 0..MaxQuantity

UnitPrices == {0, 100, 12500, 20000, 50000}

VatRates == {0, 12, 15, 25, 100}

\* line items as a form or a stored document holds them: with the amounts
\* of the rate they were last calculated at
CarriedLineItems ==
    {processed_line_items(<<item>>, rate)[1] :
        item \in {Consulting, Hosting}, rate \in {0, 25}}

FirstYear == 2023

\* every calendar date of MaxYears years: the values of nextInvoiceDate
Dates ==
    {x \in (FirstYear..(FirstYear + MaxYears - 1)) \X (1..12) \X (1..31) :
        x[3] <= DaysInMonth(x[1], x[2])}

\* the choices of the recurrence frequency selectbox
Frequencies == {"monthly", "quarterly", "annually"}

OneOffForm ==
    [invoiceDate |-> <<2024, 1, 31>>, dueDate |-> <<2024, 2, 14>>,
     clientName |-> "Acme", sellerName |-> "Seller AS",
     deliveryDetails |-> "", vatRate |-> 0, lineItems |-> <<Hosting>>,
     isRecurring |-> FALSE, recurrenceFrequency |-> "monthly",
     nextInvoiceDate |-> None, endDate |-> None]

InvoiceForms == {RecurringForm, OneOffForm}

\* a monthly invoice whose first generation is not yet due on any of Todays
FutureForm ==
    [RecurringForm EXCEPT !.clientName = "Cobalt", !.recurrenceFrequency = "monthly",
                          !.nextInvoiceDate = <<2024, 3, 31>>, !.endDate = None]

RecurringForms == {RecurringForm, FutureForm, OneOffForm}

Statuses == {"draft", "sent", "accepted", "rejected"}

DraftForm ==
    [estimateDate |-> <<2024, 1, 31>>, clientName |-> "Acme", sellerName |-> "Seller AS",
     deliveryDetails |-> "", vatRate |-> 25, lineItems |-> <<Consulting>>,
     status |-> "draft"]

CoreEstimateForms == {DraftForm}

EstimateForms ==
    {[DraftForm EXCEPT !.status = st] : st \in {"draft", "accepted"}}
    \cup
    {[estimateDate |-> <<2024, 1, 31>>, clientName |-> "Bolt", sellerName |-> "Seller AS",
      deliveryDetails |-> "On site", vatRate |-> 0, lineItems |-> <<Consulting, Hosting>>,
      status |-> st]
     : st \in {"sent", "rejected"}}

-----------------------------------------------------------------------------
(* Session state and messages *)

\* the message text (its translation key) and message_type a handler stores
NoCall == [function |-> ""]

NoMessage == [text |-> "", type |-> ""]
Success(key) == [text |-> key, type |-> "success"]
Error(key) == [text |-> key, type |-> "error"]

SetDB(db) ==
    /\ Counters' = db.Counters
    /\ Invoices' = db.Invoices
    /\ LineItems' = db.LineItems
    /\ Estimates' = db.Estimates
    /\ EstimateLineItems' = db.EstimateLineItems
    /\ sqlite_sequence' = db.sqlite_sequence

\* numbers handed out since initialisation, both counters together
Issued ==
    (Counters["invoiceNumber"] - InvoiceSeed) + (Counters["estimateNumber"] - EstimateSeed)

\* bookkeeping of one get_next_number return value
Issue(type, number) ==
    /\ first_returned' = [first_returned EXCEPT ![type] = IF @ = {} THEN {number} ELSE @]
    /\ sinceInit' = [sinceInit EXCEPT ![type] = Append(@, number)]

NoIssue == UNCHANGED <<first_returned, sinceInit>>

NothingReturned == [type \in CounterNames |-> {}]

\* a database file that does not exist yet
NoFile ==
    [Counters |-> [n \in {} |-> 0], Invoices |-> {}, LineItems |-> NoLineItems,
     Estimates |-> {}, EstimateLineItems |-> NoLineItems,
     sqlite_sequence |-> [t \in {"Invoices", "Estimates"} |-> 0]]

\* the store and the session of a first program start
Started ==
    LET db == initialize_database(NoFile)
    IN /\ Counters = db.Counters
       /\ Invoices = db.Invoices
       /\ LineItems = db.LineItems
       /\ Estimates = db.Estimates
       /\ EstimateLineItems = db.EstimateLineItems
       /\ sqlite_sequence = db.sqlite_sequence
       /\ message = NoMessage
       /\ first_returned = NothingReturned
       /\ sinceInit = [type \in CounterNames |-> <<>>]
       /\ converted = [id \in 1..MaxIssued |-> 0]

Init ==
    /\ Started
    /\ call = NoCall


-----------------------------------------------------------------------------
(* main at application start: initialize_database on the existing file *)

main ==
    /\ SetDB(initialize_database(DB))
    /\ message' = NoMessage
    /\ sinceInit' = [type \in CounterNames |-> <<>>]
    /\ UNCHANGED call
    /\ converted' = [id \in 1..MaxIssued |-> 0]
    /\ UNCHANGED first_returned

-----------------------------------------------------------------------------
(* Invoice form *)

\* invoice_data built by the submit branch of add_edit_invoice_form;
\* initial_data is the dict the form was opened with
InvoiceFormData(f, initial_data) ==
    LET items == processed_line_items(f.lineItems, f.vatRate)
        totals == calculate_overall_totals(items, f.vatRate)
    IN [invoiceNumber |-> None,
        invoiceDate |-> f.invoiceDate,
        dueDate |-> f.dueDate,
        clientName |-> f.clientName,
        sellerName |-> f.sellerName,
        deliveryDetails |-> f.deliveryDetails,
        vatRate |-> f.vatRate,
        lineItems |-> items,
        totalAmount |-> totals.total_incl_vat,
        totalAmountExclVAT |-> totals.total_excl_vat,
        totalVAT |-> totals.total_vat,
        isRecurring |-> f.isRecurring,
        recurrenceFrequency |-> IF f.isRecurring THEN f.recurrenceFrequency
                                ELSE initial_data.recurrenceFrequency,
        nextInvoiceDate |-> IF f.isRecurring THEN f.nextInvoiceDate ELSE None,
        endDate |-> IF f.isRecurring THEN f.endDate ELSE None,
        isCancelled |-> initial_data.isCancelled]

\* initial_data of a new invoice
NewInvoiceDefaults == [isCancelled |-> FALSE, recurrenceFrequency |-> "monthly"]

add_invoice_wrapper(invoice_data, fails) ==
    /\ Issued < MaxIssued
    /\ LET db1 == UpdateCounter(DB, "invoiceNumber")
           next_invoice_number == SelectCounter(db1, "invoiceNumber")
           res == add_invoice(db1, [invoice_data EXCEPT
                                    !.invoiceNumber = str(next_invoice_number)], fails)
       IN /\ SetDB(res.db)
          /\ Issue("invoiceNumber", next_invoice_number)
          /\ message' = IF res.ok THEN Success("invoiceAddedSuccess")
                        ELSE Error("failedToAddInvoice")
    /\ UNCHANGED <<converted, call>>

update_invoice_wrapper(invoice_id, updated_data, fails) ==
    LET res == update_invoice(DB, invoice_id, updated_data, fails)
    IN /\ SetDB(res.db)
       /\ message' = IF res.ok THEN Success("invoiceUpdatedSuccess")
                     ELSE Error("failedToUpdateInvoice")
       /\ UNCHANGED <<first_returned, sinceInit, converted, call>>

\* submit of the form opened by "+ Add New Invoice"
SubmitNewInvoiceOf(forms) ==
    \E f \in forms, fails \in BOOLEAN :
        add_invoice_wrapper(InvoiceFormData(f, NewInvoiceDefaults), fails)

SubmitNewInvoice == SubmitNewInvoiceOf(InvoiceForms)

SubmitCoreInvoice == SubmitNewInvoiceOf(CoreInvoiceForms)

SubmitRecurringInvoice == SubmitNewInvoiceOf(RecurringForms)

\* submit of the form opened by Edit on a listed invoice; the form keeps the
\* dict it was opened with (never a cancelled one: get_invoices lists none)
\* and stays open over later operations.  With the recurring box ticked the
\* frequency selectbox looks the dict's frequency up among the three choices
\* and raises before the submit branch when it is none of them
SubmitEditedInvoiceOf(forms) ==
    \E r \in Invoices, f \in forms, fails \in BOOLEAN :
        /\ f.isRecurring => r.recurrenceFrequency \in {"monthly", "quarterly", "annually"}
        /\ update_invoice_wrapper(r.id,
            InvoiceFormData(f, [isCancelled |-> FALSE,
                                recurrenceFrequency |-> r.recurrenceFrequency]),
            fails)

SubmitEditedInvoice == SubmitEditedInvoiceOf(InvoiceForms)

SubmitEditedCoreInvoice == SubmitEditedInvoiceOf(CoreInvoiceForms)

\* the documents of a listing
Listed(documents) == {documents[i] : i \in 1..Len(documents)}

\* "Cancel Invoice" on a listed invoice and its confirmation
ConfirmCancelInvoice ==
    \E invoice \in Listed(get_invoices(DB)) :
        /\ SetDB(cancel_invoice(DB, invoice.id))
        /\ message' = Success("invoiceCancelledSuccess")
        /\ UNCHANGED <<first_returned, sinceInit, converted, call>>

-----------------------------------------------------------------------------
(* Estimate form *)

\* estimate_data built by the submit branch of add_edit_estimate_form
EstimateFormData(f) ==
    LET items == processed_line_items(f.lineItems, f.vatRate)
        totals == calculate_overall_totals(items, f.vatRate)
    IN [estimateNumber |-> None,
        estimateDate |-> f.estimateDate,
        clientName |-> f.clientName,
        sellerName |-> f.sellerName,
        deliveryDetails |-> f.deliveryDetails,
        vatRate |-> f.vatRate,
        lineItems |-> items,
        totalAmount |-> totals.total_incl_vat,
        totalAmountExclVAT |-> totals.total_excl_vat,
        totalVAT |-> totals.total_vat,
        status |-> f.status]

add_estimate_wrapper(estimate_data, fails) ==
    /\ Issued < MaxIssued
    /\ LET db1 == UpdateCounter(DB, "estimateNumber")
           next_estimate_number == SelectCounter(db1, "estimateNumber")
           res == add_estimate(db1, [estimate_data EXCEPT
                                     !.estimateNumber = str(next_estimate_number)], fails)
       IN /\ SetDB(res.db)
          /\ Issue("estimateNumber", next_estimate_number)
          /\ message' = IF res.ok THEN Success("estimateAddedSuccess")
                        ELSE Error("failedToAddEstimate")
    /\ UNCHANGED <<converted, call>>

update_estimate_wrapper(estimate_id, updated_data, fails) ==
    LET res == update_estimate(DB, estimate_id, updated_data, fails)
    IN /\ SetDB(res.db)
       /\ message' = IF res.ok THEN Success("estimateUpdatedSuccess")
                     ELSE Error("failedToUpdateEstimate")
       /\ UNCHANGED <<first_returned, sinceInit, converted, call>>

SubmitNewEstimateOf(forms) ==
    \E f \in forms, fails \in BOOLEAN :
        add_estimate_wrapper(EstimateFormData(f), fails)

SubmitNewEstimate == SubmitNewEstimateOf(EstimateForms)

SubmitCoreEstimate == SubmitNewEstimateOf(CoreEstimateForms)

\* submit of the form opened by Edit on a listed estimate; the form stays open
\* over later operations, a delete of its estimate included
SubmitEditedEstimateOf(forms) ==
    \E estimate_id \in 1..sqlite_sequence["Estimates"], f \in forms,
       fails \in BOOLEAN :
        update_estimate_wrapper(estimate_id, EstimateFormData(f), fails)

SubmitEditedEstimate == SubmitEditedEstimateOf(EstimateForms)

SubmitEditedCoreEstimate == SubmitEditedEstimateOf(CoreEstimateForms)

\* Delete on a listed estimate and its confirmation
ConfirmDeleteEstimate ==
    \E estimate \in Listed(get_estimates(DB)) :
        /\ SetDB(delete_estimate(DB, estimate.id))
        /\ message' = Success("estimateDeletedSuccess")
        /\ UNCHANGED call
        /\ converted' = [converted EXCEPT ![estimate.id] = 0]
        /\ UNCHANGED <<first_returned, sinceInit>>

-----------------------------------------------------------------------------
(* Conversion of an estimate *)

FailPoints == {"none", "add_invoice", "update"}

\* new_invoice_data of convert_estimate_to_invoice
\* (datetime.now() is read once for invoiceDate and once more for dueDate)
ConvertedInvoiceData(estimate, next_invoice_number, now, later) ==
    [invoiceNumber |-> str(next_invoice_number),
     invoiceDate |-> now,
     dueDate |-> PlusDays(later, DueDays),
     clientName |-> estimate.clientName,
     sellerName |-> estimate.sellerName,
     deliveryDetails |-> estimate.deliveryDetails,
     vatRate |-> estimate.vatRate,
     lineItems |-> estimate.lineItems,
     totalAmount |-> estimate.totalAmount,
     totalAmountExclVAT |-> estimate.totalAmountExclVAT,
     totalVAT |-> estimate.totalVAT,
     isRecurring |-> FALSE,
     recurrenceFrequency |-> "None",
     nextInvoiceDate |-> None,
     endDate |-> None,
     isCancelled |-> FALSE]

convert_estimate_to_invoice(estimate, now, later, fail) ==
    /\ Issued < MaxIssued
    /\ LET db1 == UpdateCounter(DB, "invoiceNumber")
           next_invoice_number == SelectCounter(db1, "invoiceNumber")
           added == add_invoice(db1, ConvertedInvoiceData(estimate, next_invoice_number, now, later),
                                fail = "add_invoice")
           accepted == [estimate EXCEPT !.status = "accepted"]
           updated == update_estimate(added.db, estimate.id, accepted, fail = "update")
       IN /\ Issue("invoiceNumber", next_invoice_number)
          /\ SetDB(IF added.ok /\ updated.ok THEN updated.db ELSE added.db)
          /\ message' = IF added.ok /\ updated.ok THEN Success("estimateConvertedSuccess")
                        ELSE Error("failedToConvertEstimate")
          /\ UNCHANGED call
          /\ converted' = IF added.ok
                          THEN [converted EXCEPT ![estimate.id] = Min(@ + 1, 2)]
                          ELSE converted

\* the Convert button of estimate_detail_view, drawn unless the selected
\* estimate says accepted
ClickConvertEstimate ==
    \E estimate \in Listed(get_estimates(DB)), now \in Todays, fail \in FailPoints :
      \E later \in Laters(now) :
        /\ estimate.status # "accepted"
        /\ convert_estimate_to_invoice(estimate, now, later, fail)

-----------------------------------------------------------------------------
(* Recurring invoices *)

GeneratedOnNextInvoiceDate(original_invoice, new_invoice_number, next_date) ==
    [original_invoice EXCEPT
     !.invoiceNumber = str(new_invoice_number),
     !.invoiceDate = original_invoice.nextInvoiceDate,
     !.dueDate = PlusDays(original_invoice.nextInvoiceDate, DueDays),
     !.id = 0,
     !.isCancelled = FALSE]

\* new_invoice_data of generate_next_invoice
GeneratedInvoiceData(original_invoice, new_invoice_number, next_date) ==
    [original_invoice EXCEPT
     !.invoiceNumber = str(new_invoice_number),
     !.invoiceDate = next_date,
     !.dueDate = PlusDays(next_date, DueDays),
     !.id = 0,
     !.isCancelled = FALSE]

EndDateReached(original_invoice, next_date) ==
    /\ original_invoice.endDate # None
    /\ strptime(original_invoice.endDate) <= strptime(next_date)

\* the end-date check of generate_next_invoice
EndDatePassed(original_invoice, next_date) ==
    /\ original_invoice.endDate # None
    /\ strptime(original_invoice.endDate) < strptime(next_date)

\* what generate_next_invoice makes of the store db: the store it leaves,
\* the message it reports and the number it took (none when it rejects)
GenerateNextInvoice(db, original_invoice, fail) ==
    IF original_invoice.nextInvoiceDate = None
    THEN [db |-> db, number |-> <<>>,
          message |-> Error("Next invoice date is not set for recurring invoice.")]
    ELSE LET next_date == advance(original_invoice.nextInvoiceDate,
                                  original_invoice.recurrenceFrequency)
         IN IF EndDatePassed(original_invoice, next_date)
            THEN [db |-> db, number |-> <<>>,
                  message |-> Error("Cannot generate next invoice: End date has passed.")]
            ELSE LET db1 == UpdateCounter(db, "invoiceNumber")
                     new_invoice_number == SelectCounter(db1, "invoiceNumber")
                     added == add_invoice(db1,
                                  GeneratedInvoiceData(original_invoice,
                                                       new_invoice_number, next_date),
                                  fail = "add_invoice")
                     advanced == [original_invoice EXCEPT !.nextInvoiceDate = next_date]
                     updated == update_invoice(added.db, original_invoice.id, advanced,
                                               fail = "update")
                 IN [db |-> IF added.ok /\ updated.ok THEN updated.db ELSE added.db,
                     number |-> <<new_invoice_number>>,
                     message |-> IF added.ok /\ updated.ok
                                 THEN Success("invoiceGeneratedSuccess")
                                 ELSE Error("failedToGenerateInvoice")]

generate_next_invoice(original_invoice, fail) ==
    LET done == GenerateNextInvoice(DB, original_invoice, fail)
    IN /\ done.number # <<>> => Issued < MaxIssued
       /\ IF done.number = <<>> THEN NoIssue ELSE Issue("invoiceNumber", done.number[1])
       /\ SetDB(done.db)
       /\ message' = done.message
       /\ UNCHANGED <<converted, call>>

\* the button drawn for every listed invoice, whatever its dates
ClickGenerateAnyInvoice ==
    \E invoice \in Listed(get_invoices(DB)), fail \in FailPoints :
        generate_next_invoice(invoice, fail)

\* the Generate Next Invoice button of invoice_detail_view, drawn for a
\* recurring invoice whose nextInvoiceDate is not after today
ClickGenerateNextInvoice ==
    \E invoice \in Listed(get_invoices(DB)), today \in Todays, fail \in FailPoints :
        /\ invoice.isRecurring
        /\ strptime(invoice.nextInvoiceDate) <= strptime(today)
        /\ generate_next_invoice(invoice, fail)

-----------------------------------------------------------------------------

(* Specifications.  Spec interleaves every handler, each form offering one
   input; SpecInvoices and SpecEstimates run the handlers of one kind of
   document over the full form inputs. *)

Next ==
    \/ main
    \/ SubmitCoreInvoice
    \/ SubmitEditedCoreInvoice
    \/ ConfirmCancelInvoice
    \/ ClickGenerateNextInvoice
    \/ SubmitCoreEstimate
    \/ SubmitEditedCoreEstimate
    \/ ConfirmDeleteEstimate
    \/ ClickConvertEstimate

Spec == Init /\ [][Next]_vars

NextInvoices ==
    \/ main
    \/ SubmitNewInvoice
    \/ SubmitEditedInvoice
    \/ ConfirmCancelInvoice
    \/ ClickGenerateNextInvoice

SpecInvoices == Init /\ [][NextInvoices]_vars

\* SpecRecurring: invoices that are due, not yet due and not recurring, and
\* the Generate Next Invoice button
NextRecurring ==
    \/ main
    \/ SubmitRecurringInvoice
    \/ ClickGenerateNextInvoice

SpecRecurring == Init /\ [][NextRecurring]_vars

\* SpecSeries: one recurring series.  The store holds the one invoice a
\* first submit of the form left there; from then on only the Generate Next
\* Invoice button is pressed, on the original or on any generated invoice.
SeriesNextDates == {<<2023, 10, 31>>, <<2023, 11, 15>>, <<2023, 12, 31>>, <<2024, 1, 1>>}

SeriesForms ==
    {[RecurringForm EXCEPT !.recurrenceFrequency = f, !.nextInvoiceDate = d, !.endDate = e] :
        f \in Frequencies, d \in SeriesNextDates, e \in {None, <<2024, 1, 31>>}}

InitSeries ==
    \E f \in SeriesForms :
       LET db1 == UpdateCounter(initialize_database(NoFile), "invoiceNumber")
           next_invoice_number == SelectCounter(db1, "invoiceNumber")
           res == add_invoice(db1, [InvoiceFormData(f, NewInvoiceDefaults) EXCEPT
                                    !.invoiceNumber = str(next_invoice_number)], FALSE)
       IN /\ Counters = res.db.Counters
          /\ Invoices = res.db.Invoices
          /\ LineItems = res.db.LineItems
          /\ Estimates = res.db.Estimates
          /\ EstimateLineItems = res.db.EstimateLineItems
          /\ sqlite_sequence = res.db.sqlite_sequence
          /\ message = Success("invoiceAddedSuccess")
          /\ first_returned = [NothingReturned EXCEPT !["invoiceNumber"] = {next_invoice_number}]
          /\ sinceInit = [type \in CounterNames |->
                            IF type = "invoiceNumber" THEN <<next_invoice_number>> ELSE <<>>]
          /\ converted = [id \in 1..MaxIssued |-> 0]
          /\ call = NoCall

SpecSeries == InitSeries /\ [][ClickGenerateNextInvoice]_vars

\* SpecAdvance: the date computation of generate_next_invoice applied to every
\* date of Dates under every frequency, then to its own result
InitAdvance ==
    /\ Started
    /\ \E d \in Dates, f \in Frequencies :
          call = [function |-> "advance", d |-> d, f |-> f, steps |-> 0, value |-> d]

Advance ==
    /\ call.steps < MaxSteps
    /\ call' = [call EXCEPT !.d = call.value,
                            !.value = advance(call.value, call.f),
                            !.steps = @ + 1]
    /\ UNCHANGED <<storeVars, message, first_returned, sinceInit, converted>>

SpecAdvance == InitAdvance /\ [][Advance]_vars

\* SpecLineAmounts: calculate_line_item_amounts applied to every quantity,
\* unit price and rate of the input sets
InitLineAmounts ==
    /\ Started
    /\ \E q \in Quantities, p \in UnitPrices, v \in VatRates :
          call = [function |-> "calculate_line_item_amounts",
                  quantity |-> q, unit_price |-> p, vat_rate |-> v, steps |-> 0]

CalculateLineItemAmounts ==
    /\ call.function = "calculate_line_item_amounts"
    /\ call.steps = 0
    /\ call' = [function |-> call.function, quantity |-> call.quantity,
                unit_price |-> call.unit_price, vat_rate |-> call.vat_rate, steps |-> 1,
                value |-> calculate_line_item_amounts(call.quantity, call.unit_price,
                                                      call.vat_rate)]
    /\ UNCHANGED <<storeVars, message, first_returned, sinceInit, converted>>

SpecLineAmounts == InitLineAmounts /\ [][CalculateLineItemAmounts]_vars

\* SpecTotals: calculate_overall_totals applied to every list of up to
\* MaxItems carried line items, built one item at a time, at every rate
InitTotals ==
    /\ Started
    /\ \E v \in VatRates :
          call = [function |-> "calculate_overall_totals", line_items |-> <<>>,
                  vat_rate |-> v, value |-> calculate_overall_totals(<<>>, v)]

CalculateOverallTotals ==
    /\ call.function = "calculate_overall_totals"
    /\ Len(call.line_items) < MaxItems
    /\ \E item \in CarriedLineItems :
          LET line_items == Append(call.line_items, item)
          IN call' = [call EXCEPT
                        !.line_items = line_items,
                        !.value = calculate_overall_totals(line_items, call.vat_rate)]
    /\ UNCHANGED <<storeVars, message, first_returned, sinceInit, converted>>

SpecTotals == InitTotals /\ [][CalculateOverallTotals]_vars

\* The values a line item dict can hold under 'quantity' and 'unitPrice':
\* a number, a string, or None; a key can also be absent from the dict.
Number(n) == [type |-> "number", value |-> n]
Text(t) == [type |-> "str", text |-> t]
NoneValue == [type |-> "NoneType"]

\* the strings float() parses, with the number each one gives
NumericTexts == [t \in {"2"} |-> 2]

RawQuantities == {Number(1), Number(2), Text("2"), Text("abc"), NoneValue}
RawUnitPrices == {Number(100), Text("abc"), NoneValue}

\* line item dicts: each of the two keys present with a raw value, or absent
RawLineItems ==
    {[quantity |-> q, unitPrice |-> u] : q \in RawQuantities, u \in RawUnitPrices}
       \cup {[quantity |-> q] : q \in RawQuantities}
       \cup {[unitPrice |-> u] : u \in RawUnitPrices}
       \cup {<<>>}

\* item.get(key, 0)
get(item, key) == IF key \in DOMAIN item THEN item[key] ELSE Number(0)

\* float(v): the number, or the exception it raises
float(v) ==
    CASE v.type = "number" -> [raised |-> "", value |-> v.value]
      [] v.type = "str" ->
            IF v.text \in DOMAIN NumericTexts
            THEN [raised |-> "", value |-> NumericTexts[v.text]]
            ELSE [raised |-> "ValueError", value |-> 0]
      [] v.type = "NoneType" -> [raised |-> "TypeError", value |-> 0]

\* The try block of one pass of the loop: float(quantity) first, then
\* float(unitPrice); the first exception leaves the block.
TryLineItem(item, vat_rate) ==
    LET qty == float(get(item, "quantity"))
        price == float(get(item, "unitPrice"))
    IN IF qty.raised # "" THEN [raised |-> qty.raised]
       ELSE IF price.raised # "" THEN [raised |-> price.raised]
       ELSE [raised |-> "",
             amounts |-> calculate_line_item_amounts(qty.value, price.value, vat_rate)]

\* calculate_overall_totals on dicts as they come: 'except ValueError:
\* continue' skips the item, any other exception leaves the function.
RECURSIVE calculate_overall_totals_loop(_, _)
calculate_overall_totals_loop(line_items, vat_rate) ==
    IF line_items = <<>>
    THEN [raised |-> "", total_excl_vat |-> 0, total_vat |-> 0, total_incl_vat |-> 0]
    ELSE LET n == Len(line_items)
             rest == calculate_overall_totals_loop(SubSeq(line_items, 1, n - 1), vat_rate)
             this == TryLineItem(line_items[n], vat_rate)
         IN IF rest.raised # "" THEN rest
            ELSE IF this.raised = "ValueError" THEN rest
            ELSE IF this.raised # "" THEN [raised |-> this.raised]
            ELSE [raised |-> "",
                  total_excl_vat |-> rest.total_excl_vat + this.amounts.amountExclVAT,
                  total_vat |-> rest.total_vat + this.amounts.vatAmount,
                  total_incl_vat |-> rest.total_incl_vat + this.amounts.amountInclVAT]

RawVatRates == {0, 25}

\* SpecRawTotals: calculate_overall_totals applied to every list of up to
\* MaxItems raw line item dicts, built one item at a time
InitRawTotals ==
    /\ Started
    /\ \E v \in RawVatRates :
          call = [function |-> "calculate_overall_totals_loop", line_items |-> <<>>,
                  vat_rate |-> v, value |-> calculate_overall_totals_loop(<<>>, v)]

CalculateRawTotals ==
    /\ call.function = "calculate_overall_totals_loop"
    /\ Len(call.line_items) < MaxItems
    /\ \E item \in RawLineItems :
          LET line_items == Append(call.line_items, item)
          IN call' = [call EXCEPT
                        !.line_items = line_items,
                        !.value = calculate_overall_totals_loop(line_items, call.vat_rate)]
    /\ UNCHANGED <<storeVars, message, first_returned, sinceInit, converted>>

SpecRawTotals == InitRawTotals /\ [][CalculateRawTotals]_vars

\* a counter value two short of the first number of five digits
NearRollover == 9998

\* SpecListing: get_invoices and get_estimates applied to the stores built,
\* one document at a time, by add_invoice, cancel_invoice and add_estimate
\* with numbers from the counters, the counters starting at their seeds or
\* at NearRollover
InitListing ==
    /\ Started
    /\ \E counters \in {initialize_database(NoFile).Counters,
                        [n \in CounterNames |-> NearRollover]} :
          LET db == [initialize_database(NoFile) EXCEPT !.Counters = counters]
          IN call = [function |-> "get_invoices", db |-> db,
                     invoices |-> get_invoices(db), estimates |-> get_estimates(db)]

Listing(db) ==
    /\ call' = [call EXCEPT !.db = db,
                            !.invoices = get_invoices(db),
                            !.estimates = get_estimates(db)]
    /\ UNCHANGED <<storeVars, message, first_returned, sinceInit, converted>>

ListAfterAddInvoice ==
    /\ call.function = "get_invoices"
    /\ Cardinality(call.db.Invoices) + Cardinality(call.db.Estimates) < MaxListed
    /\ \E f \in InvoiceForms :
          LET db1 == UpdateCounter(call.db, "invoiceNumber")
              next_invoice_number == SelectCounter(db1, "invoiceNumber")
          IN Listing(add_invoice(db1, [InvoiceFormData(f, NewInvoiceDefaults) EXCEPT
                                       !.invoiceNumber = str(next_invoice_number)],
                                 FALSE).db)

ListAfterCancelInvoice ==
    /\ call.function = "get_invoices"
    /\ \E invoice \in Listed(call.invoices) : Listing(cancel_invoice(call.db, invoice.id))

ListAfterAddEstimate ==
    /\ call.function = "get_invoices"
    /\ Cardinality(call.db.Invoices) + Cardinality(call.db.Estimates) < MaxListed
    /\ \E f \in CoreEstimateForms :
          LET db1 == UpdateCounter(call.db, "estimateNumber")
              next_estimate_number == SelectCounter(db1, "estimateNumber")
          IN Listing(add_estimate(db1, [EstimateFormData(f) EXCEPT
                                        !.estimateNumber = str(next_estimate_number)],
                                  FALSE).db)

NextListing ==
    \/ ListAfterAddInvoice
    \/ ListAfterCancelInvoice
    \/ ListAfterAddEstimate

SpecListing == InitListing /\ [][NextListing]_vars

\* SpecCallers: get_next_number run by MaxCallers script runs at once, each
\* on the counter it was called for, interleaved statement by statement:
\* UPDATE and commit, then SELECT
Callers == 1..MaxCallers

InitCallers ==
    /\ Started
    /\ \E type \in [Callers -> CounterNames] :
          call = [function |-> "get_next_number", type |-> type,
                  pc |-> [c \in Callers |-> "update"],
                  number |-> [c \in Callers |-> None]]

\* UPDATE Counters SET currentNumber = currentNumber + 1 WHERE name = ?; commit
UpdateAndCommit(c) ==
    /\ call.function = "get_next_number"
    /\ call.pc[c] = "update"
    /\ Counters' = UpdateCounter(DB, call.type[c]).Counters
    /\ call' = [call EXCEPT !.pc[c] = "select"]
    /\ UNCHANGED <<Invoices, LineItems, Estimates, EstimateLineItems, sqlite_sequence,
                   message, first_returned, sinceInit, converted>>

\* SELECT currentNumber FROM Counters WHERE name = ?; return number
SelectAndReturn(c) ==
    /\ call.function = "get_next_number"
    /\ call.pc[c] = "select"
    /\ call' = [call EXCEPT !.pc[c] = "done",
                            !.number[c] = <<SelectCounter(DB, call.type[c])>>]
    /\ UNCHANGED <<storeVars, message, first_returned, sinceInit, converted>>

NextCallers ==
    \/ \E c \in Callers : UpdateAndCommit(c)
    \/ \E c \in Callers : SelectAndReturn(c)

SpecCallers == InitCallers /\ [][NextCallers]_vars

NextEstimates ==
    \/ main
    \/ SubmitNewEstimate
    \/ SubmitEditedEstimate
    \/ ConfirmDeleteEstimate
    \/ ClickConvertEstimate

SpecEstimates == Init /\ [][NextEstimates]_vars

-----------------------------------------------------------------------------
(* Properties *)

Last(s) == s[Len(s)]

\* get_next_number(type) returned a value in this step
Returned(type) == Len(sinceInit'[type]) = Len(sinceInit[type]) + 1

\* the stored row with the given id
InvoiceWithId(id) == CHOOSE r \in Invoices : r.id = id
EstimateWithId(id) == CHOOSE e \in Estimates : e.id = id

\* C1: a value get_next_number(type) has returned is never returned again
\* for that type, whatever happened in between: failed inserts, or the
\* program being started again.
NumberNeverReturnedTwice ==
    [][\A type \in CounterNames :
          Returned(type) => Last(sinceInit'[type]) \notin first_returned[type]]_vars

\* C2: counted from a freshly initialised store, the k-th call of
\* get_next_number(type) returns seed + k (1001, 1002, ... for invoices,
\* 2001, 2002, ... for estimates), and the stored counter is the value
\* returned last: each call raises it by exactly one.
SuccessiveNumbers ==
    \A type \in CounterNames :
        /\ sinceInit[type] = [k \in 1..Len(sinceInit[type]) |-> Seed(type) + k]
        /\ Counters[type] = Seed(type) + Len(sinceInit[type])

SuccessiveNumbersWitness ==
    /\ sinceInit["invoiceNumber"] = <<InvoiceSeed + 1, InvoiceSeed + 2>>
    /\ sinceInit["estimateNumber"] = <<EstimateSeed + 1>>
    /\ Counters["invoiceNumber"] = InvoiceSeed + 2
    /\ Cardinality(Invoices) = 1

\* C3: in every reachable state no two stored invoices share an
\* invoiceNumber and no two stored estimates share an estimateNumber.
UniqueNumbers ==
    /\ \A r1, r2 \in Invoices : r1.invoiceNumber = r2.invoiceNumber => r1 = r2
    /\ \A e1, e2 \in Estimates : e1.estimateNumber = e2.estimateNumber => e1 = e2

\* a created invoice that was edited, next to an invoice converted from a
\* stored estimate
UniqueNumbersWitness ==
    /\ message = Success("invoiceUpdatedSuccess")
    /\ \E r1, r2 \in Invoices :
          /\ r1.isRecurring
          /\ r2.recurrenceFrequency = "None"
    /\ Estimates # {}

\* C4: update_invoice and update_estimate leave the stored invoiceNumber /
\* estimateNumber of the document and both counters as they were, also when
\* the data handed in carries another number (none, or one a different
\* document holds or may come to hold); a failing update changes nothing.
UpdateKeepsNumbers ==
    /\ \A r \in Invoices, f \in InvoiceForms, fails \in BOOLEAN,
          number \in {None, str(InvoiceSeed + 1), str(InvoiceSeed + 2)} :
          LET data == [InvoiceFormData(f, [isCancelled |-> FALSE,
                                           recurrenceFrequency |-> r.recurrenceFrequency])
                       EXCEPT !.invoiceNumber = number]
              db == update_invoice(DB, r.id, data, fails).db
          IN /\ db.Counters = Counters
             /\ {<<x.id, x.invoiceNumber>> : x \in db.Invoices}
                = {<<x.id, x.invoiceNumber>> : x \in Invoices}
             /\ db.Estimates = Estimates
    /\ \A e \in Estimates, f \in EstimateForms, fails \in BOOLEAN,
          number \in {None, str(EstimateSeed + 1), str(EstimateSeed + 2)} :
          LET data == [EstimateFormData(f) EXCEPT !.estimateNumber = number]
              db == update_estimate(DB, e.id, data, fails).db
          IN /\ db.Counters = Counters
             /\ {<<x.id, x.estimateNumber>> : x \in db.Estimates}
                = {<<x.id, x.estimateNumber>> : x \in Estimates}
             /\ db.Invoices = Invoices

\* an estimate and an invoice have been saved from their edit forms
UpdateKeepsNumbersWitness ==
    /\ message = Success("estimateUpdatedSuccess")
    /\ \E e \in Estimates : e.estimateNumber = str(EstimateSeed + 1)
    /\ \E r \in Invoices : r.invoiceNumber = str(InvoiceSeed + 1) /\ ~r.isCancelled
    /\ Counters = [invoiceNumber |-> InvoiceSeed + 1, estimateNumber |-> EstimateSeed + 1]

\* C5: a stored invoice that is cancelled stays cancelled: no operation sets
\* isCancelled back to false, neither an update submitted from an edit form
\* opened before the cancellation nor the write-back of generate_next_invoice.
CancelledStaysCancelled ==
    [][\A r \in Invoices : r.isCancelled =>
          \A r2 \in Invoices' : r2.id = r.id => r2.isCancelled]_vars

\* C6: cancelling a listed invoice takes it out of what get_invoices
\* returns; its row and its line items stay in the store, the row with
\* isCancelled true and every other field as before, and no other row changes.
CancelHidesAndKeeps ==
    [][(message' = Success("invoiceCancelledSuccess") /\ ConfirmCancelInvoice) =>
          \E r \in Invoices :
             /\ ~r.isCancelled
             /\ Invoices' = (Invoices \ {r}) \cup {[r EXCEPT !.isCancelled = TRUE]}
             /\ LineItems' = LineItems
             /\ get_invoices([DB EXCEPT !.Invoices = Invoices', !.LineItems = LineItems'])
                = SelectSeq(get_invoices(DB), LAMBDA inv : inv.id # r.id)
             /\ <<Counters, Estimates, EstimateLineItems>>' =
                <<Counters, Estimates, EstimateLineItems>>]_vars

CancelHidesAndKeepsWitness ==
    /\ message = Success("invoiceCancelledSuccess")
    /\ \E r \in Invoices :
          /\ r.isCancelled
          /\ Len(SelectLineItems(LineItems, r.id)) = 2
          /\ \A i \in 1..Len(get_invoices(DB)) : get_invoices(DB)[i].id # r.id
    /\ Len(get_invoices(DB)) = 1

\* C7: cancel_invoice is idempotent: a second call on the same id leaves
\* the store exactly as the first call left it.
CancelIdempotent ==
    \A id \in 1..(sqlite_sequence["Invoices"] + 1) :
        cancel_invoice(cancel_invoice(DB, id), id) = cancel_invoice(DB, id)

\* a cancelled invoice is stored, and cancelling it again changes nothing
CancelIdempotentWitness ==
    \E r \in Invoices :
        /\ r.isCancelled
        /\ r.isRecurring
        /\ cancel_invoice(DB, r.id) = DB
        /\ cancel_invoice(DB, r.id).Invoices # {}

\* what a successful conversion of the estimate leaves behind, the due date
\* apart: one more invoice, with a fresh number and the estimate's client,
\* seller, delivery details, VAT rate, line items and totals, neither
\* recurring nor cancelled; the estimate accepted and otherwise as it was
Converted(estimate) ==
    /\ \E inv \in Invoices' :
          /\ Invoices' = Invoices \cup {inv}
          /\ \A r \in Invoices : r.id # inv.id /\ r.invoiceNumber # inv.invoiceNumber
          /\ inv.invoiceNumber = str(Last(sinceInit'["invoiceNumber"]))
          /\ Returned("invoiceNumber")
          /\ inv.clientName = estimate.clientName
          /\ inv.sellerName = estimate.sellerName
          /\ inv.deliveryDetails = estimate.deliveryDetails
          /\ inv.vatRate = estimate.vatRate
          /\ inv.totalAmount = estimate.totalAmount
          /\ inv.totalAmountExclVAT = estimate.totalAmountExclVAT
          /\ inv.totalVAT = estimate.totalVAT
          /\ SelectLineItems(LineItems', inv.id) = estimate.lineItems
          /\ \A p \in DOMAIN LineItems : SelectLineItems(LineItems', p) = LineItems[p]
          /\ ~inv.isRecurring
          /\ ~inv.isCancelled
    /\ Estimates' = (Estimates \ {EstimateWithId(estimate.id)})
                    \cup {[EstimateWithId(estimate.id) EXCEPT !.status = "accepted"]}
    /\ EstimateLineItems' = EstimateLineItems

\* the invoice a conversion has just added
ConvertedInvoice == CHOOSE inv \in Invoices' : inv \notin Invoices

\* a step of convert_estimate_to_invoice that adds the invoice and updates the estimate
Converts(estimate) ==
    /\ \E now \in Todays : \E later \in Laters(now) :
          convert_estimate_to_invoice(estimate, now, later, "none")

\* C8: a successful conversion adds exactly one invoice, with a fresh number,
\* the estimate's client, seller, delivery details, VAT rate, line items and
\* totals, isRecurring false, isCancelled false and dueDate 14 days after
\* invoiceDate; it sets the estimate's status to accepted and changes nothing
\* else of the estimate.
ConvertAddsOneInvoice ==
    [][message' = Success("estimateConvertedSuccess") =>
       \A estimate \in Listed(get_estimates(DB)) :
          Converts(estimate) =>
             /\ Converted(estimate)
             /\ ConvertedInvoice.dueDate
                = strftime(strptime(ConvertedInvoice.invoiceDate) + DueDays)]_vars

\* the part of C8 that does not speak of the due date
ConvertCopiesEstimate ==
    [][message' = Success("estimateConvertedSuccess") =>
       \A estimate \in Listed(get_estimates(DB)) :
          Converts(estimate) => Converted(estimate)]_vars

\* C9: no estimate is converted twice: an estimate yields at most one
\* invoice, also when its status is edited between two conversions.
AtMostOneInvoicePerEstimate ==
    \A id \in DOMAIN converted : converted[id] <= 1

\* a step of generate_next_invoice that adds the invoice and updates the original
Generates(original) ==
    /\ original.isRecurring
    /\ generate_next_invoice(original, "none")

\* C10: a successful generate_next_invoice adds exactly one invoice, equal
\* to the stored original field by field (line items included) except for a
\* fresh invoiceNumber, invoiceDate = advance(nextInvoiceDate, frequency),
\* dueDate 14 days after that and isCancelled false; the stored original gets
\* the advanced date as its nextInvoiceDate and is otherwise unchanged.
GenerateCopiesAndAdvances ==
    [][message' = Success("invoiceGeneratedSuccess") =>
       \A original \in Listed(get_invoices(DB)) :
          Generates(original) =>
             LET row == InvoiceWithId(original.id)
                 date == advance(row.nextInvoiceDate, row.recurrenceFrequency)
             IN \E new \in Invoices' :
                   /\ \A r \in Invoices : r.id # new.id /\ r.invoiceNumber # new.invoiceNumber
                   /\ new.invoiceNumber = str(Last(sinceInit'["invoiceNumber"]))
                   /\ Returned("invoiceNumber")
                   /\ new = [row EXCEPT !.id = new.id,
                                        !.invoiceNumber = new.invoiceNumber,
                                        !.invoiceDate = date,
                                        !.dueDate = strftime(strptime(date) + DueDays),
                                        !.isCancelled = FALSE]
                   /\ Invoices' = (Invoices \ {row})
                                  \cup {[row EXCEPT !.nextInvoiceDate = date], new}
                   /\ SelectLineItems(LineItems', new.id) = LineItems[row.id]
                   /\ \A p \in DOMAIN LineItems : SelectLineItems(LineItems', p) = LineItems[p]
                   /\ <<Estimates, EstimateLineItems>>' = <<Estimates, EstimateLineItems>>]_vars

\* the quarterly invoice due on 2023-10-31 and the copy generated from it
GenerateCopiesAndAdvancesWitness ==
    /\ message = Success("invoiceGeneratedSuccess")
    /\ \E row, new \in Invoices :
          /\ row.nextInvoiceDate = <<2024, 1, 31>>
          /\ new.nextInvoiceDate = <<2023, 10, 31>>
          /\ new.invoiceDate = <<2024, 1, 31>>
          /\ new.dueDate = <<2024, 2, 14>>
          /\ new.invoiceNumber = str(InvoiceSeed + 2)
          /\ row.invoiceNumber = str(InvoiceSeed + 1)
          /\ row.dueDate = <<2023, 8, 30>>

\* every stored invoice as a handler would be handed it
StoredInvoiceDicts == {InvoiceDict(DB, r) : r \in Invoices}

\* the conditions under which generation is to be refused
RejectsGeneration(original) ==
    \/ original.nextInvoiceDate = None
    \/ /\ original.endDate # None
       /\ strptime(original.endDate)
          < strptime(advance(original.nextInvoiceDate, original.recurrenceFrequency))

\* C11: generate_next_invoice called for an invoice whose nextInvoiceDate is
\* unset, or whose endDate lies before advance(nextInvoiceDate, frequency),
\* reports an error and changes nothing else: no invoice is added, the stored
\* original keeps its nextInvoiceDate, no number is handed out.  When endDate
\* equals the advanced date the call is not rejected: it adds an invoice.
GenerationRejected ==
    \A original \in StoredInvoiceDicts :
        /\ RejectsGeneration(original) =>
              \A fail \in FailPoints :
                 LET done == GenerateNextInvoice(DB, original, fail)
                 IN /\ done.message.type = "error"
                    /\ done.db = DB
                    /\ done.number = <<>>
        /\ (/\ original.nextInvoiceDate # None
            /\ original.endDate
               = advance(original.nextInvoiceDate, original.recurrenceFrequency)) =>
              LET done == GenerateNextInvoice(DB, original, "none")
              IN /\ done.message = Success("invoiceGeneratedSuccess")
                 /\ Cardinality(done.db.Invoices) = Cardinality(Invoices) + 1
                 /\ done.number # <<>>

\* the second generation from the quarterly invoice has just been refused:
\* its nextInvoiceDate stands at its endDate, and its one copy is stored
GenerationRejectedWitness ==
    /\ message = Error("Cannot generate next invoice: End date has passed.")
    /\ \E original, copy \in Invoices :
          /\ original.nextInvoiceDate = <<2024, 1, 31>>
          /\ original.endDate = <<2024, 1, 31>>
          /\ copy.invoiceDate = <<2024, 1, 31>>
    /\ \E r \in Invoices : r.nextInvoiceDate = None
    /\ Cardinality(Invoices) = 3
    /\ Counters["invoiceNumber"] = InvoiceSeed + 3

\* the messages generate_next_invoice can leave
GenerateMessages ==
    {Success("invoiceGeneratedSuccess"), Error("failedToGenerateInvoice"),
     Error("Next invoice date is not set for recurring invoice."),
     Error("Cannot generate next invoice: End date has passed.")}

\* the stored invoice r is recurring and its nextInvoiceDate is not after today
Due(r) ==
    /\ r.isRecurring
    /\ r.nextInvoiceDate # None
    /\ \E today \in Todays : strptime(r.nextInvoiceDate) <= strptime(today)

IsDate(x) ==
    /\ x[2] \in 1..12
    /\ x[3] \in 1..DaysInMonth(x[1], x[2])

\* the date d + offset(f) days with its day replaced by the smaller of d's
\* day and the last day of that date's month
ClampedToMonthEnd(d, f) ==
    LET t == strftime(strptime(d) + FrequencyDays(f))
    IN <<t[1], t[2], Min(d[3], DaysInMonth(t[1], t[2]))>>

\* C13: advance(d, f) is d + offset(f) days (31, 92, 366) with the day of the
\* month replaced by min(d.day, last day of the month d + offset(f) falls
\* in); advance(2024-01-31, monthly) has the last day of its month as its day.
AdvanceClampsToMonthEnd ==
    (call.function = "advance" /\ call.steps > 0) =>
        /\ call.value = ClampedToMonthEnd(call.d, call.f)
        /\ (call.d = <<2024, 1, 31>> /\ call.f = "monthly") =>
              call.value[3] = DaysInMonth(call.value[1], call.value[2])

\* C14: for every date d and every frequency, advance(d, f) is a date of the
\* calendar and is not before d, so the dates obtained by applying advance
\* again and again never go back.
AdvanceNeverGoesBack ==
    (call.function = "advance" /\ call.steps > 0) =>
        /\ IsDate(call.value)
        /\ strptime(call.value) >= strptime(call.d)

\* advance applied twice in a row from 2023-12-31 under the monthly
\* frequency: 2024-01-31, a month's last day, then 2024-03-02
AdvanceNeverGoesBackWitness ==
    /\ call.function = "advance"
    /\ call.steps = 2
    /\ call.f = "monthly"
    /\ call.d = <<2024, 1, 31>>
    /\ call.value = <<2024, 3, 2>>

\* the header r and its stored line items agree: the totals are the sums
\* over the items, and every item's amounts follow from its quantity, its
\* unit price and the rate of r
ConsistentDocument(r, items) ==
    /\ r.totalAmountExclVAT = Sum([i \in 1..Len(items) |-> items[i].amountExclVAT])
    /\ r.totalVAT = Sum([i \in 1..Len(items) |-> items[i].vatAmount])
    /\ r.totalAmount = Sum([i \in 1..Len(items) |-> items[i].amountInclVAT])
    /\ r.totalAmount = r.totalAmountExclVAT + r.totalVAT
    /\ \A i \in 1..Len(items) :
          /\ items[i].amountExclVAT = items[i].quantity * items[i].unitPrice
          /\ items[i].vatAmount * 100 = items[i].amountExclVAT * r.vatRate
          /\ items[i].amountInclVAT = items[i].amountExclVAT + items[i].vatAmount

\* C15: in every reachable state every stored invoice and every stored
\* estimate has totals equal to the sums over its stored line items, a
\* totalAmount equal to totalAmountExclVAT + totalVAT, and line items whose
\* three amounts are the ones derived from quantity, unit price and the
\* document's vatRate.
TotalsConsistent ==
    /\ \A r \in Invoices : ConsistentDocument(r, SelectLineItems(LineItems, r.id))
    /\ \A r \in Estimates :
          ConsistentDocument(r, SelectLineItems(EstimateLineItems, r.id))

\* an estimate of two line items at rate 0, saved over one that had one line
\* item at rate 25 after that one was converted: the invoice keeps the one
\* item at rate 25
TotalsConsistentWitness ==
    \E e \in Estimates, inv \in Invoices :
        /\ e.vatRate = 0
        /\ Len(SelectLineItems(EstimateLineItems, e.id)) = 2
        /\ e.totalAmount = 160000
        /\ inv.vatRate = 25
        /\ inv.totalAmount = 125000
        /\ inv.invoiceNumber = str(InvoiceSeed + 1)
        /\ Len(SelectLineItems(LineItems, inv.id)) = 1
        /\ message = Success("estimateUpdatedSuccess")

\* C16: for a quantity q >= 0, a unit price p >= 0 and a rate v between 0
\* and 100, calculate_line_item_amounts gives exclVAT = q * p,
\* vatAmount = exclVAT * v / 100 and inclVAT = exclVAT + vatAmount.
LineAmounts ==
    (call.function = "calculate_line_item_amounts" /\ call.steps > 0) =>
        /\ call.value.amountExclVAT = call.quantity * call.unit_price
        /\ call.value.vatAmount * 100 = call.value.amountExclVAT * call.vat_rate
        /\ call.value.amountInclVAT = call.value.amountExclVAT + call.value.vatAmount

\* three units at 125.00 and 25 %: 375.00, 93.75 and 468.75
LineAmountsWitness ==
    /\ call.function = "calculate_line_item_amounts"
    /\ call.steps > 0
    /\ call.quantity = 3 /\ call.unit_price = 12500 /\ call.vat_rate = 25
    /\ call.value = [amountExclVAT |-> 37500, vatAmount |-> 9375, amountInclVAT |-> 46875]

\* the line amounts of every item of line_items at the one rate vat_rate
AmountsAtRate(line_items, vat_rate) ==
    [i \in 1..Len(line_items) |->
        calculate_line_item_amounts(line_items[i].quantity, line_items[i].unitPrice,
                                    vat_rate)]

\* C17: calculate_overall_totals(lineItems, vatRate) is the component-wise
\* sum, over all the items, of the line amounts of the item's quantity and
\* unit price at the one rate vatRate, whatever amounts the items carry.
DocumentTotals ==
    call.function = "calculate_overall_totals" =>
        LET amounts == AmountsAtRate(call.line_items, call.vat_rate)
        IN /\ call.value.total_excl_vat
              = Sum([i \in 1..Len(amounts) |-> amounts[i].amountExclVAT])
           /\ call.value.total_vat
              = Sum([i \in 1..Len(amounts) |-> amounts[i].vatAmount])
           /\ call.value.total_incl_vat
              = Sum([i \in 1..Len(amounts) |-> amounts[i].amountInclVAT])

\* two items carrying the amounts of rate 0, totalled at 25 %: VAT 40000 on
\* 160000 although the items carry no VAT
DocumentTotalsWitness ==
    /\ call.function = "calculate_overall_totals"
    /\ call.vat_rate = 25
    /\ Len(call.line_items) = 2
    /\ \A i \in 1..2 : call.line_items[i].vatAmount = 0
    /\ call.line_items[1].description # call.line_items[2].description
    /\ call.value = [total_excl_vat |-> 160000, total_vat |-> 40000,
                     total_incl_vat |-> 200000]

\* C18: delete_estimate(id) removes the estimate's header and every
\* EstimateLineItems row of that estimateId; the other estimates and their
\* line items, the invoices and the counters stay as they are.
DeleteRemovesHeaderAndLineItems ==
    [][message' = Success("estimateDeletedSuccess") =>
          \E e \in Estimates :
             /\ Estimates' = Estimates \ {e}
             /\ SelectLineItems(EstimateLineItems', e.id) = <<>>
             /\ \A o \in Estimates \ {e} :
                   SelectLineItems(EstimateLineItems', o.id)
                   = SelectLineItems(EstimateLineItems, o.id)
             /\ <<Invoices, LineItems, Counters>>' = <<Invoices, LineItems, Counters>>]_vars

\* the store after is the store before but for the header and the line
\* items of the one invoice id
OnlyInvoiceChanged(before, after, id) ==
    /\ {r \in after.Invoices : r.id # id} = {r \in before.Invoices : r.id # id}
    /\ \A p \in (DOMAIN before.LineItems \cup DOMAIN after.LineItems) \ {id} :
          SelectLineItems(after.LineItems, p) = SelectLineItems(before.LineItems, p)
    /\ after.Estimates = before.Estimates
    /\ after.EstimateLineItems = before.EstimateLineItems
    /\ after.Counters = before.Counters

\* the same for the one estimate id
OnlyEstimateChanged(before, after, id) ==
    /\ {r \in after.Estimates : r.id # id} = {r \in before.Estimates : r.id # id}
    /\ \A p \in (DOMAIN before.EstimateLineItems \cup DOMAIN after.EstimateLineItems) \ {id} :
          SelectLineItems(after.EstimateLineItems, p)
          = SelectLineItems(before.EstimateLineItems, p)
    /\ after.Invoices = before.Invoices
    /\ after.LineItems = before.LineItems
    /\ after.Counters = before.Counters

\* C19: update_invoice on a stored invoice leaves as that invoice's line
\* items exactly the submitted list (no earlier item survives) and as its
\* header the submitted fields, and changes neither header nor line items of
\* any other invoice or of any estimate; update_estimate likewise.
UpdateReplaces ==
    /\ \A r \in Invoices, f \in InvoiceForms :
          LET data == InvoiceFormData(f, InvoiceDict(DB, r))
              after == update_invoice(DB, r.id, data, FALSE).db
              row == CHOOSE n \in after.Invoices : n.id = r.id
          IN /\ SelectLineItems(after.LineItems, r.id) = LineItemRows(data.lineItems)
             /\ \A column \in DOMAIN row \ {"id", "invoiceNumber"} :
                   row[column] = data[column]
             /\ OnlyInvoiceChanged(DB, after, r.id)
    /\ \A r \in Estimates, f \in EstimateForms :
          LET data == EstimateFormData(f)
              after == update_estimate(DB, r.id, data, FALSE).db
              row == CHOOSE n \in after.Estimates : n.id = r.id
          IN /\ SelectLineItems(after.EstimateLineItems, r.id) = LineItemRows(data.lineItems)
             /\ \A column \in DOMAIN row \ {"id", "estimateNumber"} :
                   row[column] = data[column]
             /\ OnlyEstimateChanged(DB, after, r.id)

\* an estimate has just been saved over with one line item while another
\* estimate holds two and the invoice converted from an estimate holds one
UpdateReplacesWitness ==
    /\ message = Success("estimateUpdatedSuccess")
    /\ \E e, o \in Estimates :
          /\ e.id < o.id
          /\ Len(SelectLineItems(EstimateLineItems, e.id)) = 1
          /\ Len(SelectLineItems(EstimateLineItems, o.id)) = 2
          /\ e.status = "draft"
    /\ \E inv \in Invoices : Len(SelectLineItems(LineItems, inv.id)) = 1

\* the integer a number column's text stands for
RECURSIVE NumberOf(_)
NumberOf(text) ==
    IF text = <<>> THEN 0
    ELSE NumberOf(SubSeq(text, 1, Len(text) - 1)) * 10 + text[Len(text)]

\* C20: get_invoices returns exactly the stored invoices that are not
\* cancelled, in descending order of invoice number, and get_estimates every
\* stored estimate in descending order of estimate number, the numbers
\* compared as the integers the counters issued, also when their texts
\* differ in length (9999 and 10000).
ListedInNumberOrder ==
    call.function = "get_invoices" =>
        /\ {inv.id : inv \in Listed(call.invoices)}
           = {r.id : r \in {x \in call.db.Invoices : ~x.isCancelled}}
        /\ Len(call.invoices) = Cardinality({x \in call.db.Invoices : ~x.isCancelled})
        /\ \A i, j \in 1..Len(call.invoices) :
              i < j => NumberOf(call.invoices[i].invoiceNumber)
                       > NumberOf(call.invoices[j].invoiceNumber)
        /\ {e.id : e \in Listed(call.estimates)} = {r.id : r \in call.db.Estimates}
        /\ Len(call.estimates) = Cardinality(call.db.Estimates)
        /\ \A i, j \in 1..Len(call.estimates) :
              i < j => NumberOf(call.estimates[i].estimateNumber)
                       > NumberOf(call.estimates[j].estimateNumber)

\* the same but for the order, taken as the order of the number texts
ListedInTextOrder ==
    call.function = "get_invoices" =>
        /\ {inv.id : inv \in Listed(call.invoices)}
           = {r.id : r \in {x \in call.db.Invoices : ~x.isCancelled}}
        /\ Len(call.invoices) = Cardinality({x \in call.db.Invoices : ~x.isCancelled})
        /\ \A i, j \in 1..Len(call.invoices) :
              i < j => TextLess(call.invoices[j].invoiceNumber,
                                call.invoices[i].invoiceNumber)
        /\ {e.id : e \in Listed(call.estimates)} = {r.id : r \in call.db.Estimates}
        /\ Len(call.estimates) = Cardinality(call.db.Estimates)
        /\ \A i, j \in 1..Len(call.estimates) :
              i < j => TextLess(call.estimates[j].estimateNumber,
                                call.estimates[i].estimateNumber)

\* C21: get_next_number is atomic: calls on the same counter interleaved
\* statement by statement (UPDATE and commit, then SELECT) return distinct
\* values, and when they have returned the counter stands exactly as many
\* above its seed as there were calls on it.
NextNumberAtomic ==
    call.function = "get_next_number" =>
        /\ \A c, d \in Callers :
              (/\ c # d
               /\ call.type[c] = call.type[d]
               /\ call.pc[c] = "done"
               /\ call.pc[d] = "done") => call.number[c] # call.number[d]
        /\ (\A c \in Callers : call.pc[c] = "done") =>
              \A name \in CounterNames :
                 Counters[name]
                 = Seed(name) + Cardinality({c \in Callers : call.type[c] = name})

\* the counter part alone: every call adds one
CounterCountsCalls ==
    (call.function = "get_next_number" /\ \A c \in Callers : call.pc[c] = "done") =>
        \A name \in CounterNames :
           Counters[name] = Seed(name) + Cardinality({c \in Callers : call.type[c] = name})

\* the moves of draft -> sent -> accepted and draft -> sent -> rejected
StatusMoves == {<<"draft", "sent">>, <<"sent", "accepted">>, <<"sent", "rejected">>}

\* C22: the status of a stored estimate is always one of draft, sent,
\* accepted, rejected and only ever moves draft -> sent -> accepted or
\* draft -> sent -> rejected: never away from accepted or rejected, never
\* from sent back to draft.
StatusOnlyMovesForward ==
    [][\A after \in Estimates' :
          /\ after.status \in Statuses
          /\ \A before \in Estimates :
                (before.id = after.id /\ before.status # after.status) =>
                   <<before.status, after.status>> \in StatusMoves]_vars

\* the part that concerns the values alone
StatusIsKnown == \A r \in Estimates : r.status \in Statuses

\* the messages convert_estimate_to_invoice can leave
ConvertMessages == {Success("estimateConvertedSuccess"), Error("failedToConvertEstimate")}

\* C23: convert_estimate_to_invoice is all or nothing, also when it fails
\* between its two writes: a step of it adds an invoice exactly when it sets
\* the estimate it was called for to accepted; it never leaves the new
\* invoice next to an estimate that is not accepted, nor an estimate it
\* accepted without an invoice.
ConvertAllOrNothing ==
    [][message' \in ConvertMessages =>
          ((Invoices' # Invoices)
           <=> \E e \in Estimates :
                  /\ e.status # "accepted"
                  /\ [e EXCEPT !.status = "accepted"] \in Estimates')]_vars

\* C24: add_invoice stores header and line items as one unit: when an
\* INSERT of it fails the store holds neither the new header nor any of its
\* line items and only the number is used up; when it succeeds the header,
\* with isCancelled false, and all the submitted line items are stored.
\* The same for add_estimate.
AddIsOneUnit ==
    [][/\ message' = Error("failedToAddInvoice") =>
             /\ <<Invoices, LineItems, Estimates, EstimateLineItems>>'
                = <<Invoices, LineItems, Estimates, EstimateLineItems>>
             /\ Counters' = [Counters EXCEPT !["invoiceNumber"] = @ + 1]
       /\ message' = Success("invoiceAddedSuccess") =>
             \E new \in Invoices', f \in CoreInvoiceForms :
                /\ \A r \in Invoices : r.id # new.id
                /\ Invoices' = Invoices \cup {new}
                /\ ~new.isCancelled
                /\ new.invoiceNumber = str(Counters'["invoiceNumber"])
                /\ new.clientName = f.clientName
                /\ SelectLineItems(LineItems', new.id)
                   = LineItemRows(InvoiceFormData(f, NewInvoiceDefaults).lineItems)
                /\ \A p \in DOMAIN LineItems' \ {new.id} :
                      LineItems'[p] = SelectLineItems(LineItems, p)
       /\ message' = Error("failedToAddEstimate") =>
             /\ <<Invoices, LineItems, Estimates, EstimateLineItems>>'
                = <<Invoices, LineItems, Estimates, EstimateLineItems>>
             /\ Counters' = [Counters EXCEPT !["estimateNumber"] = @ + 1]
       /\ message' = Success("estimateAddedSuccess") =>
             \E new \in Estimates', f \in CoreEstimateForms :
                /\ \A r \in Estimates : r.id # new.id
                /\ Estimates' = Estimates \cup {new}
                /\ new.estimateNumber = str(Counters'["estimateNumber"])
                /\ new.clientName = f.clientName
                /\ SelectLineItems(EstimateLineItems', new.id)
                   = LineItemRows(EstimateFormData(f).lineItems)
                /\ \A p \in DOMAIN EstimateLineItems' \ {new.id} :
                      EstimateLineItems'[p] = SelectLineItems(EstimateLineItems, p)]_vars

\* an invoice was stored with its two line items, then a second add failed:
\* one invoice, one line-item list, and the counter two above its seed
AddIsOneUnitWitness ==
    /\ message = Error("failedToAddInvoice")
    /\ Cardinality(Invoices) = 1
    /\ \A r \in Invoices : Len(SelectLineItems(LineItems, r.id)) = 2
    /\ DOMAIN LineItems = {r.id : r \in Invoices}
    /\ Counters["invoiceNumber"] = InvoiceSeed + 2
    /\ Estimates # {}

\* C25: update_estimate called for an id that is not in the store (an
\* estimate deleted while its edit form was open) reports an error and
\* leaves the store unchanged: it inserts no line items for the missing
\* estimate.  The same for update_invoice, cancel_invoice, delete_estimate.
MissingIdChangesNothing ==
    [][message'.text \in {"estimateUpdatedSuccess", "failedToUpdateEstimate"} =>
          \A estimate_id \in 1..sqlite_sequence["Estimates"] :
             (/\ \A r \in Estimates : r.id # estimate_id
              /\ \E f \in EstimateForms, fails \in BOOLEAN :
                    update_estimate_wrapper(estimate_id, EstimateFormData(f), fails))
             => /\ message'.type = "error"
                /\ UNCHANGED storeVars]_vars


-----------------------------------------------------------------------------
\* C26: calculate_overall_totals skips every line item whose quantity or
\* unitPrice is not numeric (a non-numeric string, None, or an absent key)
\* and returns the totals of the remaining items; it never fails.
IsNumeric(item, key) ==
    /\ key \in DOMAIN item
    /\ float(item[key]).raised = ""

NumericItems(line_items) ==
    SelectSeq(line_items, LAMBDA item : IsNumeric(item, "quantity")
                                        /\ IsNumeric(item, "unitPrice"))

PlainItem(item) ==
    [quantity |-> float(item.quantity).value, unitPrice |-> float(item.unitPrice).value]

TotalsSkipNonNumeric ==
    call.function = "calculate_overall_totals_loop" =>
       LET remaining == NumericItems(call.line_items)
           expected == calculate_overall_totals(
                          [i \in 1..Len(remaining) |-> PlainItem(remaining[i])],
                          call.vat_rate)
       IN /\ call.value.raised = ""
          /\ call.value.total_excl_vat = expected.total_excl_vat
          /\ call.value.total_vat = expected.total_vat
          /\ call.value.total_incl_vat = expected.total_incl_vat

\* the part that holds: an item with a non-numeric string is skipped
TotalsSkipNonNumericText ==
    (/\ call.function = "calculate_overall_totals_loop"
     /\ \A i \in 1..Len(call.line_items) :
           \A key \in DOMAIN call.line_items[i] :
              call.line_items[i][key].type # "NoneType") =>
       LET remaining == NumericItems(call.line_items)
           expected == calculate_overall_totals(
                          [i \in 1..Len(remaining) |-> PlainItem(remaining[i])],
                          call.vat_rate)
       IN /\ call.value.raised = ""
          /\ call.value.total_excl_vat = expected.total_excl_vat
          /\ call.value.total_vat = expected.total_vat
          /\ call.value.total_incl_vat = expected.total_incl_vat


-----------------------------------------------------------------------------
\* C27: a start of the program on a store that already holds counters and
\* documents leaves the counters, the invoices, the estimates and their
\* line items as they were.
InitialisationKeepsStore ==
    [][main => UNCHANGED storeVars]_vars

\* the part that holds: a start seeds both counters and leaves a store
\* that holds nothing but seeded counters unchanged
InitialisationSeedsCounters ==
    [][main => /\ Counters'["invoiceNumber"] = InvoiceSeed
               /\ Counters'["estimateNumber"] = EstimateSeed]_vars


-----------------------------------------------------------------------------
\* C28: in every reachable state every stored invoice number n satisfies
\* 1000 < n <= the invoiceNumber counter and every stored estimate number m
\* satisfies 2000 < m <= the estimateNumber counter; an estimate operation
\* other than the conversion never changes the invoiceNumber counter, and no
\* invoice operation changes the estimateNumber counter.
StoredNumbersIssued ==
    /\ \A r \in Invoices :
          /\ InvoiceSeed < NumberOf(r.invoiceNumber)
          /\ NumberOf(r.invoiceNumber) <= Counters["invoiceNumber"]
    /\ \A e \in Estimates :
          /\ EstimateSeed < NumberOf(e.estimateNumber)
          /\ NumberOf(e.estimateNumber) <= Counters["estimateNumber"]

EstimateOperation ==
    \/ SubmitCoreEstimate
    \/ SubmitEditedCoreEstimate
    \/ ConfirmDeleteEstimate

InvoiceOperation ==
    \/ SubmitCoreInvoice
    \/ SubmitEditedCoreInvoice
    \/ ConfirmCancelInvoice
    \/ ClickGenerateNextInvoice

NumbersWithinCounters ==
    /\ []StoredNumbersIssued
    /\ [][/\ EstimateOperation =>
                Counters'["invoiceNumber"] = Counters["invoiceNumber"]
          /\ InvoiceOperation =>
                Counters'["estimateNumber"] = Counters["estimateNumber"]]_vars

\* an invoice and an estimate are stored, the invoiceNumber counter is ahead
\* of every stored invoice number (a number was consumed by a failed insert),
\* and the last step was an estimate operation
NumbersWithinCountersWitness ==
    /\ Invoices # {}
    /\ \A r \in Invoices : NumberOf(r.invoiceNumber) < Counters["invoiceNumber"]
    /\ \E e \in Estimates : NumberOf(e.estimateNumber) = Counters["estimateNumber"]
    /\ message = Success("estimateUpdatedSuccess")


-----------------------------------------------------------------------------
\* C29: within one recurring series (the original and every invoice
\* generated from it or from a generated descendant) no two invoices created
\* by generate_next_invoice carry the same invoiceDate, whatever invoice the
\* button is pressed on and in whatever order.
\* (Under SpecSeries the invoice with id 1 is the original and every other
\* row was created by generate_next_invoice.)
GeneratedInvoices == {r \in Invoices : r.id > 1}

SeriesDatesDistinct ==
    \A r1, r2 \in GeneratedInvoices :
       r1.id # r2.id => r1.invoiceDate # r2.invoiceDate


-----------------------------------------------------------------------------
\* the calendar months each frequency stands for
FrequencyMonths(f) ==
    CASE f = "monthly" -> 1
      [] f = "quarterly" -> 3
      [] f = "annually" -> 12

\* the same day of the month k calendar months after d
MonthsLater(d, k) ==
    LET months == (d[2] - 1) + k
    IN <<d[1] + (months \div 12), (months % 12) + 1, d[3]>>

\* C30: for every date whose day of the month is at most 28 and every
\* frequency, advance returns the date with the same day of the month exactly
\* 1 (monthly), 3 (quarterly) or 12 (annually) calendar months later, in leap
\* and in non-leap years.
AdvanceByCalendarMonths ==
    (call.function = "advance" /\ call.steps > 0 /\ call.d[3] <= 28) =>
        call.value = MonthsLater(call.d, FrequencyMonths(call.f))

\* the part that holds: the monthly and the quarterly frequency
AdvanceByOneOrThreeMonths ==
    (/\ call.function = "advance" /\ call.steps > 0 /\ call.d[3] <= 28
     /\ call.f \in {"monthly", "quarterly"}) =>
        call.value = MonthsLater(call.d, FrequencyMonths(call.f))

====
